---- MODULE Spec2Model ----
(***************************************************************************)
(* State-machine model of the lukso-orchestrator store of verified slot    *)
(* infos (orchestrator/db/kv), of the vanguard (consensus) subscriber's     *)
(* handlers and of the components that drive them.                          *)
(*                                                                          *)
(* Vocabulary: the natural-language specification calls                     *)
(*   SaveVerifiedSlotInfo      SaveSlotVerdict                               *)
(*   VerifiedSlotInfo          GetSlotVerdict                                *)
(*   VerifiedSlotInfos         GetSlotRange                                  *)
(*   LatestSavedVerifiedSlot   LatestVerifiedSlot                            *)
(*   LatestVerifiedHeaderHash  LatestVerifiedHash                            *)
(*   store.latestVerifiedSlot / store.latestHeaderHash   the in-memory       *)
(*                             mirror of the two cursors                     *)
(***************************************************************************)
EXTENDS Integers, Sequences, FiniteSets, TLC

(***************************************************************************)
(* Bounds of the model.                                                     *)
(***************************************************************************)
\* slots are 0..MaxSlot
MaxSlot == 2
\* number of arrivals in one behaviour: writes the store is asked for, and
\* beacon blocks the vanguard service is handed
MaxOps == 2
\* width of a hash in bytes (32 in the program; the model scales it down)
HashLength == 2

Slots == 0 .. MaxSlot

(***************************************************************************)
(* Bytes, hashes and the encodings the store uses for keys and values.      *)
(***************************************************************************)
RECURSIVE Pow256(_)
Pow256(k) == IF k = 0 THEN 1 ELSE 256 * Pow256(k - 1)

\* bytesutil.Uint64ToBytesBigEndian: 8 bytes, most significant first.  The
\* model's integers stay below 2^32, so the four high bytes are zero.
Uint64ToBytesBigEndian(n) ==
    [i \in 1 .. 8 |-> IF i <= 4 THEN 0 ELSE (n \div Pow256(8 - i)) % 256]

\* bytesutil.BytesToUint64BigEndian: 0 for fewer than 8 bytes.
BytesToUint64BigEndian(b) ==
    IF Len(b) < 8 THEN 0
    ELSE b[5] * Pow256(3) + b[6] * Pow256(2) + b[7] * Pow256(1) + b[8]

\* common.BytesToHash: keeps the last HashLength bytes, right-aligned.
BytesToHash(b) ==
    LET n == Len(b)
        c == IF n > HashLength THEN SubSeq(b, n - HashLength + 1, n) ELSE b
        m == Len(c)
    IN  [i \in 1 .. HashLength |->
            IF i <= HashLength - m THEN 0 ELSE c[i - (HashLength - m)]]

\* common.HexToHash("00..00")
EmptyHash == BytesToHash(<<>>)

\* the hash whose last byte is k
HashOf(k) == BytesToHash(<<k>>)

\* the header hashes the callers use
Hashes == {HashOf(1), HashOf(2)}

\* types.Status
Statuses == {"Pending", "Verified", "Invalid", "Skipped"}

StatusCode(st) ==
    CASE st = "Pending" -> 0
      [] st = "Verified" -> 1
      [] st = "Invalid" -> 2
      [] st = "Skipped" -> 3

CodeStatus(c) ==
    CASE c = 0 -> "Pending"
      [] c = 1 -> "Verified"
      [] c = 2 -> "Invalid"
      [] OTHER -> "Skipped"

\* *types.SlotInfo as the store sees it: the pandora header hash and the
\* verdict's status.
SlotInfos == [PandoraHeaderHash : Hashes, Status : Statuses]

\* what the store's callers save: every verdict but Skipped, which only the
\* verifier's gap fill-in writes (with the empty hash)
CallerSlotInfos == [PandoraHeaderHash : Hashes, Status : Statuses \ {"Skipped"}]

\* a nil *types.SlotInfo
NilSlotInfo == [PandoraHeaderHash |-> <<>>, Status |-> "nil"]

\* encode / decode of a slot info: one status byte, then the hash bytes.
encode(slotInfo) == <<StatusCode(slotInfo.Status)>> \o slotInfo.PandoraHeaderHash

decode(enc) ==
    [PandoraHeaderHash |-> BytesToHash(Tail(enc)), Status |-> CodeStatus(Head(enc))]

\* fixed keys of the two cursors in verifiedSlotInfosBucket ("lvs", "lhh")
latestSavedVerifiedSlotKey == <<108, 118, 115>>
latestHeaderHashKey == <<108, 104, 104>>

(***************************************************************************)
(* A bolt bucket: a finite map from key bytes to value bytes.               *)
(***************************************************************************)
\* bkt.Get: nil (here the empty byte string) for a missing key
bktGet(bkt, key) == IF key \in DOMAIN bkt THEN bkt[key] ELSE <<>>

\* bkt.Put
bktPut(bkt, key, value) ==
    [k \in (DOMAIN bkt) \cup {key} |-> IF k = key THEN value ELSE bkt[k]]

\* the empty bucket / the empty cache / an empty result map
EmptyMap == <<>>

\* ristretto Cache.Get: (value, found)
cacheGet(cache, slot) ==
    IF slot \in DOMAIN cache THEN [v |-> cache[slot], ok |-> TRUE]
    ELSE [v |-> NilSlotInfo, ok |-> FALSE]

\* ristretto Cache.Set when the item is admitted
cacheSet(cache, slot, slotInfo) ==
    [k \in (DOMAIN cache) \cup {slot} |-> IF k = slot THEN slotInfo ELSE cache[k]]

(***************************************************************************)
(* State.                                                                   *)
(*   store   the kv.Store: its bolt bucket verifiedSlotInfosBucket (db),    *)
(*           its ristretto cache, the in-memory cursors and isRunning       *)
(*   ret     the call or handler step taken last and what it returned       *)
(*   nops    how many writes the store was asked for and how many beacon    *)
(*           blocks the vanguard service was handed                         *)
(*   vanguardPendingBlockHashFeed   what the vanguard service sent on its   *)
(*           pending block hash feed, in order                              *)
(*   vanguardHeaderHashDB           slot -> header hash saved by the        *)
(*           vanguard service                                               *)
(*   vanPc   the position of OnNewPendingVanguardBlock: idle, or between    *)
(*           its Send and its SaveVanguardHeaderHash                        *)
(***************************************************************************)
VARIABLES store, ret, nops, vanguardPendingBlockHashFeed, vanguardHeaderHashDB, vanPc

vanVars == <<vanguardPendingBlockHashFeed, vanguardHeaderHashDB, vanPc>>

(***************************************************************************)
(* State of the other components.                                           *)
(*   pc          a slot cache (cache.PanHeaderCache): its entries and their  *)
(*               order of use, least recently used first                     *)
(*   recentPuts  the slots of the last maxCacheSize Put calls on pc that no  *)
(*               Remove has dropped since, oldest first                      *)
(*   cacheRet    the call on pc taken last and what it returned              *)
(***************************************************************************)
VARIABLES pc, recentPuts, cacheRet

cacheVars == <<pc, recentPuts, cacheRet>>

\*   rpcRet      the batch the RPC API was last asked to confirm and its response
VARIABLES rpcRet

rpcVars == <<rpcRet>>

\*   consensusInfoDB     epoch -> consensus info saved by the vanguard service
\*   conPc               the position of OnNewConsensusInfo: idle, or between
\*                       its Send and its SaveConsensusInfo
\*   sub                 the MinimalConsensusInfo subscription of one client:
\*                       the position of its goroutine, the requested epoch,
\*                       alreadyKnownEpochs, the index of the range loop, and
\*                       whether consensusInfoSub is registered
\*   consensusInfo       the events in flight on the subscription's channel
\*   notified            what the client received, in order, each marked live
\*                       or not
\*   clientClosed        the client has disconnected (notifier.Closed())
\*   knownAtSubscribe    the epochs the store held when the client subscribed
VARIABLES consensusInfoDB, conPc, sub, consensusInfo, notified, clientClosed,
          knownAtSubscribe

conVars == <<consensusInfoDB, conPc>>

\*   verCache     the two caches of unmatched arrivals: execution headers and
\*                consensus shard infos, by slot
\*   pendingFeed  the arrivals emitted on the two pending feeds that the
\*                verifier has not received yet, in order
\*   verPc        the position of the verifier's handler of each feed
\*   locks        the slots whose lock a handler holds
\*   epochKnown   the store knows the epoch of the slots
\*   verdictFeed  the verdicts emitted on the verdict feed, in order
\*   verLog       what happened: the slots that arrived on each feed, the
\*                matches that ended with a verdict (slot and handler), the
\*                verdicts written, the slots whose match was deferred
VARIABLES verCache, pendingFeed, verPc, locks, epochKnown, verdictFeed, verLog

verVars == <<verCache, pendingFeed, verPc, locks, epochKnown, verdictFeed, verLog>>

\*   svc          the pandorachain.Service: isRunning, runError, connected,
\*                rpcClient (0 for nil, else the number of the dialled
\*                client), conInfoSub, and whether its context is cancelled
\*   panPc        the position of the service's goroutine
\*   endpoint     what the pandora endpoint does with a dial and a subscribe
\*   ndials       how many clients dialRPCFn has returned
\*   closedClients  the clients Close was called on
\*   conInfoSubErrCh  the subscription error waiting on the channel
\*   panRet       the step of the service taken last: the error it ended
\*                with and whether it called dialRPCFn
VARIABLES svc, panPc, endpoint, ndials, closedClients, conInfoSubErrCh, panRet

panVars == <<svc, panPc, endpoint, ndials, closedClients, conInfoSubErrCh, panRet>>

subVars == <<sub, consensusInfo, notified, clientClosed, knownAtSubscribe>>

\* lastSavedHash  the execution header hash of the verdict the verifier saved
\*                last while the pandora service was observed
VARIABLES lastSavedHash

lastVars == <<lastSavedHash>>

\*   pendingWorkChannel  the items waiting on the service's channel, in order
\*   forwarders          the goroutines SubscribeToPendingWorkChannel has
\*                       started, by consumer: the item each one has taken
\*                       from the channel and not yet handed on (0 for none)
\*   subscriberChan      what each consumer has received on its channel
\*   published           the items published so far, each with the consumers
\*                       registered at that moment
\*   fanRet              the step taken last and the consumer it concerns
VARIABLES pendingWorkChannel, forwarders, subscriberChan, published, fanRet

fanVars == <<pendingWorkChannel, forwarders, subscriberChan, published, fanRet>>

\* the state of the store, the verifier and the vanguard service
kvVars == <<store, ret, nops, vanVars>>

\* what the store, the verifier and the vanguard service leave alone
otherVars == <<cacheVars, rpcVars, conVars, subVars, verVars, panVars, lastVars, fanVars>>

\* what the calls on the slot cache leave alone
exceptCache == <<kvVars, rpcVars, conVars, subVars, verVars, panVars, lastVars, fanVars>>

\* what the RPC API's confirmation calls leave alone, the store aside
exceptRpc == <<vanVars, cacheVars, conVars, subVars, verVars, panVars, lastVars, fanVars>>

\* what the consensus-info handler and the subscription leave alone, the
\* store and the vanguard block handler aside
exceptCon == <<cacheVars, rpcVars, verVars, panVars, lastVars, fanVars>>

\* what the verifier's handlers leave alone, the store aside
exceptVer == <<vanVars, cacheVars, rpcVars, conVars, subVars, panVars, lastVars, fanVars>>

\* what the pandora service leaves alone
exceptPan == <<kvVars, cacheVars, rpcVars, conVars, subVars, verVars, lastVars, fanVars>>

\* what the forwarding of pending work leaves alone
exceptFan == <<kvVars, cacheVars, rpcVars, conVars, subVars, verVars, panVars, lastVars>>

vars == <<kvVars, otherVars>>

(***************************************************************************)
(* The store's reads (s is the receiver).                                   *)
(***************************************************************************)
\* Store.LatestSavedVerifiedSlot: reads the bucket only while !s.isRunning and
\* returns its local variable, which is still zero otherwise.
LatestSavedVerifiedSlot(s) ==
    IF ~s.isRunning
    THEN LET slotBytes == bktGet(s.db, latestSavedVerifiedSlotKey)
         IN  IF slotBytes = <<>> THEN 0 ELSE BytesToUint64BigEndian(slotBytes)
    ELSE 0

\* Store.InMemoryLatestVerifiedSlot
InMemoryLatestVerifiedSlot(s) == s.latestVerifiedSlot

\* Store.LatestVerifiedHeaderHash: as LatestSavedVerifiedSlot; the zero value
\* of common.Hash is the empty hash.
LatestVerifiedHeaderHash(s) ==
    IF ~s.isRunning
    THEN LET latestHeaderHashBytes == bktGet(s.db, latestHeaderHashKey)
         IN  IF latestHeaderHashBytes = <<>> THEN EmptyHash
             ELSE BytesToHash(latestHeaderHashBytes)
    ELSE EmptyHash

\* Store.InMemoryLatestVerifiedHeaderHash
InMemoryLatestVerifiedHeaderHash(s) == s.latestHeaderHash

\* Store.VerifiedSlotInfo: the cache first, then the bucket; nil when neither
\* holds the slot.
VerifiedSlotInfo(s, slot) ==
    LET c == cacheGet(s.verifiedSlotInfoCache, slot)
        value == bktGet(s.db, Uint64ToBytesBigEndian(slot))
    IN  IF c.v # NilSlotInfo /\ c.ok THEN c.v
        ELSE IF value = <<>> THEN NilSlotInfo
        ELSE decode(value)

\* Store.VerifiedSlotInfos: [err, slotInfos]
VerifiedSlotInfos(s, fromSlot) ==
    LET latestVerifiedSlot == LatestSavedVerifiedSlot(s)
        found == {slot \in fromSlot .. latestVerifiedSlot :
                     VerifiedSlotInfo(s, slot) # NilSlotInfo}
    IN  IF fromSlot > latestVerifiedSlot
        THEN [err |-> "errInvalidSlot", slotInfos |-> EmptyMap]
        ELSE [err |-> "nil",
              slotInfos |-> [slot \in found |-> VerifiedSlotInfo(s, slot)]]

(***************************************************************************)
(* The store's writes, as functions from the store to the store.            *)
(***************************************************************************)
\* the outcomes of one db.Update in SaveVerifiedSlotInfo: no error, encode
\* fails, bkt.Put fails, or the transaction's commit fails after the closure
\* returned nil (bolt then rolls the bucket back)
Faults == {"none", "encode", "put", "commit"}

\* Store.SaveVerifiedSlotInfo.  status is what cache.Set returns: false means
\* the item was dropped.
SaveVerifiedSlotInfo(s, slot, slotInfo, status, fault) ==
    LET cached == IF status
                  THEN cacheSet(s.verifiedSlotInfoCache, slot, slotInfo)
                  ELSE s.verifiedSlotInfoCache
        put == bktPut(s.db, Uint64ToBytesBigEndian(slot), encode(slotInfo))
    IN  CASE fault = "encode" -> s
          [] fault = "put" -> [s EXCEPT !.verifiedSlotInfoCache = cached]
          [] fault = "commit" ->
                [s EXCEPT !.verifiedSlotInfoCache = cached,
                          !.latestVerifiedSlot = slot,
                          !.latestHeaderHash = slotInfo.PandoraHeaderHash]
          [] OTHER ->
                [s EXCEPT !.verifiedSlotInfoCache = cached,
                          !.db = put,
                          !.latestVerifiedSlot = slot,
                          !.latestHeaderHash = slotInfo.PandoraHeaderHash]

\* the error SaveVerifiedSlotInfo returns
SaveVerifiedSlotInfoErr(fault) == IF fault = "none" THEN "nil" ELSE fault

\* SaveLatestVerifiedSlot with the Put of the cursor left out
SaveLatestVerifiedSlotNoPut(s) == s

\* Store.SaveLatestVerifiedSlot
SaveLatestVerifiedSlot(s) ==
    [s EXCEPT !.db = bktPut(@, latestSavedVerifiedSlotKey,
                            Uint64ToBytesBigEndian(s.latestVerifiedSlot))]

\* Store.SaveLatestVerifiedHeaderHash (Hash.Bytes is the hash's bytes)
SaveLatestVerifiedHeaderHash(s) ==
    [s EXCEPT !.db = bktPut(@, latestHeaderHashKey, s.latestHeaderHash)]

\* Store.Close: dumps the in-memory cursors into the bucket and closes.
Close(s) ==
    [SaveLatestVerifiedHeaderHash(SaveLatestVerifiedSlot(s)) EXCEPT !.isRunning = FALSE]

\* NewKVStore on an existing database: a new Store with an empty cache whose
\* cursors are read back from the bucket before it is marked running.
NewKVStore(s) ==
    [db |-> s.db,
     verifiedSlotInfoCache |-> EmptyMap,
     latestVerifiedSlot |-> LatestSavedVerifiedSlot([s EXCEPT !.isRunning = FALSE]),
     latestHeaderHash |-> LatestVerifiedHeaderHash([s EXCEPT !.isRunning = FALSE]),
     isRunning |-> TRUE]

(***************************************************************************)
(* The bounded slot cache (package cache): slot -> header, capacity          *)
(* maxCacheSize, least recently used entry evicted first; when slot s is     *)
(* evicted or removed, every entry with a key <= s goes with it.             *)
(***************************************************************************)
\* capacity of a slot cache (1 << 10 in the program; the model scales it down)
maxCacheSize == 2

\* no slot (nothing was evicted)
NoSlot == -1

\* *eth1Types.Header values the callers put
Headers == {[Number |-> 1], [Number |-> 2]}

NilHeader == [Number |-> -1]

\* NewPanHeaderCache
NewPanHeaderCache == [cache |-> EmptyMap, lru |-> <<>>]

\* seq without slot
Without(seq, slot) == LET keep(x) == x # slot IN SelectSeq(seq, keep)

\* slot becomes the most recently used entry
Touch(lru, slot) == Append(Without(lru, slot), slot)

\* c without the entries whose key is <= s
DropUpTo(c, s) ==
    LET keep(x) == x > s
    IN  [cache |-> [k \in {x \in DOMAIN c.cache : x > s} |-> c.cache[k]],
         lru |-> SelectSeq(c.lru, keep)]

\* c with header under slot, before any eviction
Added(c, slot, header) ==
    [cache |-> [k \in (DOMAIN c.cache) \cup {slot} |->
                   IF k = slot THEN header ELSE c.cache[k]],
     lru |-> Touch(c.lru, slot)]

\* the slot a Put of slot evicts (NoSlot when the entry fits)
Evicted(c, slot) ==
    LET lru == Touch(c.lru, slot)
    IN  IF Len(lru) > maxCacheSize THEN Head(lru) ELSE NoSlot

\* c without the entry of slot
DropSlot(c, slot) ==
    LET keep(x) == x # slot
    IN  [cache |-> [k \in (DOMAIN c.cache) \ {slot} |-> c.cache[k]],
         lru |-> SelectSeq(c.lru, keep)]

\* Put with the eviction left out
PutNoEviction(c, slot, header) == Added(c, slot, header)

\* Put whose eviction drops the least recently used entry only
PutNoCascade(c, slot, header) ==
    IF Evicted(c, slot) = NoSlot THEN Added(c, slot, header)
    ELSE DropSlot(Added(c, slot, header), Evicted(c, slot))

\* Put that keeps the header a held slot already has
PutKeepsOld(c, slot, header) ==
    IF slot \in DOMAIN c.cache THEN [c EXCEPT !.lru = Touch(@, slot)]
    ELSE IF Evicted(c, slot) = NoSlot THEN Added(c, slot, header)
    ELSE DropUpTo(Added(c, slot, header), Evicted(c, slot))

\* PanHeaderCache.Put
Put(c, slot, header) ==
    IF Evicted(c, slot) = NoSlot THEN Added(c, slot, header)
    ELSE DropUpTo(Added(c, slot, header), Evicted(c, slot))

\* PanHeaderCache.Get: the header, or the error "Invalid slot"
Get(c, slot) ==
    IF slot \in DOMAIN c.cache
    THEN [header |-> c.cache[slot], err |-> "nil"]
    ELSE [header |-> NilHeader, err |-> "Invalid slot"]

\* the cache after Get(slot): a hit makes slot the most recently used entry
AfterGet(c, slot) ==
    IF slot \in DOMAIN c.cache THEN [c EXCEPT !.lru = Touch(@, slot)] ELSE c

\* Remove that drops slot only
RemoveOnlySlot(c, slot) == DropSlot(c, slot)

\* PanHeaderCache.Remove
Remove(c, slot) == DropUpTo(c, slot)

\* PanHeaderCache.GetAll: a snapshot of the entries
GetAll(c) == c.cache

\* the last maxCacheSize distinct slots of seq
LastPuts(seq) ==
    IF Len(seq) > maxCacheSize
    THEN SubSeq(seq, Len(seq) - maxCacheSize + 1, Len(seq))
    ELSE seq

\* pandorachain.NewService: the service before Start
NewService ==
    [isRunning |-> FALSE, runError |-> "nil", connected |-> FALSE, rpcClient |-> 0,
     conInfoSub |-> [client |-> 0, FromBlockHash |-> <<>>], cancelled |-> FALSE]

\* the two pending feeds and their handlers in the verifier
Sides == {"exec", "cons"}

\* a handler of the verifier waits for an arrival
VerIdle == [at |-> "idle", slot |-> 0, own |-> <<>>, other |-> <<>>, status |-> ""]

\* OnNewConsensusInfo is not running
ConIdle == [at |-> "idle", consensusInfo |-> <<>>]

\* no client has called MinimalConsensusInfo
NoSubscription ==
    [at |-> "none", epoch |-> 0, alreadyKnownEpochs |-> <<>>, index |-> 0,
     subscribed |-> FALSE]

\* OnNewPendingVanguardBlock is not running
VanIdle == [at |-> "idle", slot |-> 0, headerHash |-> <<>>]

(***************************************************************************)
(* Initial state: NewKVStore on a brand-new database, vanguard service idle.*)
(***************************************************************************)
Init ==
    /\ store = [db |-> EmptyMap,
                verifiedSlotInfoCache |-> EmptyMap,
                latestVerifiedSlot |-> 0,
                latestHeaderHash |-> EmptyHash,
                isRunning |-> TRUE]
    /\ ret = [op |-> "NewKVStore", slot |-> 0, err |-> "nil"]
    /\ nops = 0
    /\ vanguardPendingBlockHashFeed = <<>>
    /\ vanguardHeaderHashDB = EmptyMap
    /\ vanPc = VanIdle
    /\ pc = NewPanHeaderCache
    /\ recentPuts = <<>>
    /\ cacheRet = [op |-> "NewPanHeaderCache", slot |-> 0, header |-> NilHeader,
                   err |-> "nil", evicted |-> NoSlot]
    /\ rpcRet = [requests |-> <<>>, res |-> <<>>]
    /\ consensusInfoDB = EmptyMap
    /\ conPc = ConIdle
    /\ sub = NoSubscription
    /\ consensusInfo = <<>>
    /\ notified = <<>>
    /\ clientClosed = FALSE
    /\ knownAtSubscribe = {}
    /\ svc = NewService
    /\ panPc = [at |-> "init", caller |-> ""]
    /\ endpoint = "down"
    /\ ndials = 0
    /\ closedClients = {}
    /\ conInfoSubErrCh = "none"
    /\ panRet = [op |-> "NewService", err |-> "nil", dialed |-> FALSE]
    /\ lastSavedHash = EmptyHash
    /\ pendingWorkChannel = <<>>
    /\ forwarders = EmptyMap
    /\ subscriberChan = EmptyMap
    /\ published = <<>>
    /\ fanRet = [op |-> "NewService", consumer |-> ""]
    /\ verCache = [side \in Sides |-> NewPanHeaderCache]
    /\ pendingFeed = [side \in Sides |-> <<>>]
    /\ verPc = [side \in Sides |-> VerIdle]
    /\ locks = {}
    /\ epochKnown = FALSE
    /\ verdictFeed = <<>>
    /\ verLog = [arrived |-> [side \in Sides |-> {}], matched |-> {},
                 written |-> <<>>, deferred |-> {}]

(***************************************************************************)
(* Calls on the store.                                                      *)
(***************************************************************************)
\* a caller saves slotInfo under slot.  cache.Set reports a dropped item only
\* for a key the cache does not hold (an update of a held key is immediate).
CallSaveVerifiedSlotInfo(slot, slotInfo, status, fault) ==
    /\ nops < MaxOps
    /\ store.isRunning
    /\ status \/ slot \notin DOMAIN store.verifiedSlotInfoCache
    /\ store' = SaveVerifiedSlotInfo(store, slot, slotInfo, status, fault)
    /\ ret' = [op |-> "SaveVerifiedSlotInfo", slot |-> slot,
               err |-> SaveVerifiedSlotInfoErr(fault)]
    /\ nops' = nops + 1
    /\ UNCHANGED <<vanVars, otherVars>>

CallClose ==
    /\ store.isRunning
    /\ store' = Close(store)
    /\ ret' = [op |-> "Close", slot |-> 0, err |-> "nil"]
    /\ UNCHANGED <<nops, vanVars, otherVars>>

CallNewKVStore ==
    /\ ~store.isRunning
    /\ store' = NewKVStore(store)
    /\ ret' = [op |-> "NewKVStore", slot |-> 0, err |-> "nil"]
    /\ UNCHANGED <<nops, vanVars, otherVars>>

Next ==
    \/ \E slot \in Slots, slotInfo \in CallerSlotInfos, status \in BOOLEAN, fault \in Faults :
          CallSaveVerifiedSlotInfo(slot, slotInfo, status, fault)
    \/ CallClose
    \/ CallNewKVStore

Spec == Init /\ [][Next]_vars

(***************************************************************************)
(* What is on disk, whatever isRunning says.                                *)
(***************************************************************************)
\* the slot info the bucket holds for slot (NilSlotInfo when it holds none)
StoredSlotInfo(s, slot) ==
    LET value == bktGet(s.db, Uint64ToBytesBigEndian(slot))
    IN  IF value = <<>> THEN NilSlotInfo ELSE decode(value)

\* the cursors as the bucket holds them
PersistedLatestVerifiedSlot(s) == LatestSavedVerifiedSlot([s EXCEPT !.isRunning = FALSE])

PersistedLatestHeaderHash(s) == LatestVerifiedHeaderHash([s EXCEPT !.isRunning = FALSE])

Max(a, b) == IF a >= b THEN a ELSE b

\* this step is a call of SaveVerifiedSlotInfo
IsSaveStep == ret'.op = "SaveVerifiedSlotInfo" /\ nops' = nops + 1

(***************************************************************************)
(* Claims about the store, checked under Spec.                              *)
(***************************************************************************)
\* C1: latest_verified_slot never decreases from one state to the next,
\* whatever slots SaveVerifiedSlotInfo is called with and across Close and
\* reopen.
C1_CursorNeverDecreases ==
    [][store'.latestVerifiedSlot >= store.latestVerifiedSlot]_vars

\* C2: a SaveVerifiedSlotInfo call with a slot strictly below the stored
\* cursor fails with the invalid-slot error and leaves the stored slot infos,
\* latest_verified_slot and latest_header_hash unchanged.
C2_BelowCursorRejected ==
    [][(IsSaveStep /\ ret'.slot < store.latestVerifiedSlot)
          => /\ ret'.err = "errInvalidSlot"
             /\ store'.db = store.db
             /\ store'.latestVerifiedSlot = store.latestVerifiedSlot
             /\ store'.latestHeaderHash = store.latestHeaderHash]_vars

\* C3: every slot that holds a persisted Verified verdict is at most
\* LatestSavedVerifiedSlot().
C3_VerifiedBelowCursor ==
    \A slot \in Slots :
        StoredSlotInfo(store, slot).Status = "Verified"
            => slot <= LatestSavedVerifiedSlot(store)

\* C4: once a Verified or Invalid verdict is stored for a slot, no later
\* SaveVerifiedSlotInfo call changes what is stored for that slot.
C4_TerminalVerdictImmutable ==
    [][\A slot \in Slots :
          StoredSlotInfo(store, slot).Status \in {"Verified", "Invalid"}
              => StoredSlotInfo(store', slot) = StoredSlotInfo(store, slot)]_vars

\* C5: after Close and a reopen of the same store, the recovered latest
\* verified slot and latest header hash equal the in-memory values held just
\* before Close (a closed store keeps them until NewKVStore replaces them).
C5_CursorsSurviveReopen ==
    [][ret'.op = "NewKVStore"
          => /\ store'.latestVerifiedSlot = store.latestVerifiedSlot
             /\ store'.latestHeaderHash = store.latestHeaderHash]_vars

\* C5 witness: a store reopened after a write, with a non-zero cursor and a
\* non-empty header hash recovered.
C5_Witness ==
    /\ ret.op = "NewKVStore"
    /\ nops > 0
    /\ store.isRunning
    /\ store.latestVerifiedSlot > 0
    /\ store.latestHeaderHash # EmptyHash

\* C6: when a SaveVerifiedSlotInfo call has returned without error, the
\* persisted latest verified slot is max(previous cursor, slot), the persisted
\* latest header hash is the saved slot info's hash, and both equal the
\* in-memory mirror.
C6_SaveUpdatesPersistedCursors ==
    [][(IsSaveStep /\ ret'.err = "nil")
          => /\ PersistedLatestVerifiedSlot(store')
                  = Max(store.latestVerifiedSlot, ret'.slot)
             /\ PersistedLatestHeaderHash(store')
                  = StoredSlotInfo(store', ret'.slot).PandoraHeaderHash
             /\ PersistedLatestVerifiedSlot(store') = store'.latestVerifiedSlot
             /\ PersistedLatestHeaderHash(store') = store'.latestHeaderHash]_vars

\* C7: while the store is open, LatestSavedVerifiedSlot() and
\* LatestVerifiedHeaderHash() return the in-memory cursors; when it is not
\* open they return what the bucket holds.
C7_CursorReadsServeMirror ==
    /\ store.isRunning
          => /\ LatestSavedVerifiedSlot(store) = InMemoryLatestVerifiedSlot(store)
             /\ LatestVerifiedHeaderHash(store) = InMemoryLatestVerifiedHeaderHash(store)
    /\ ~store.isRunning
          => /\ LatestSavedVerifiedSlot(store) = PersistedLatestVerifiedSlot(store)
             /\ LatestVerifiedHeaderHash(store) = PersistedLatestHeaderHash(store)

\* C8: VerifiedSlotInfos(fromSlot) fails with the invalid-slot error exactly
\* when fromSlot > latest_verified_slot; otherwise its keys are exactly the
\* slots of [fromSlot, latest_verified_slot] that hold a stored slot info, each
\* mapped to that stored slot info.
C8_SlotRange ==
    store.isRunning =>
        \A fromSlot \in Slots :
            LET r == VerifiedSlotInfos(store, fromSlot)
                held == {slot \in fromSlot .. store.latestVerifiedSlot :
                            StoredSlotInfo(store, slot) # NilSlotInfo}
            IN  /\ (r.err = "errInvalidSlot") <=> (fromSlot > store.latestVerifiedSlot)
                /\ fromSlot <= store.latestVerifiedSlot
                      => r.slotInfos = [slot \in held |-> StoredSlotInfo(store, slot)]

(***************************************************************************)
(* The verifier's writes.  On a terminal outcome for slot it writes the     *)
(* verdict through the store, after a Skipped verdict (with the empty hash) *)
(* for every slot between the cursor the store reports and slot that holds  *)
(* no slot info yet.  Each write is its own SaveVerifiedSlotInfo call; a    *)
(* store error makes the verifier skip the arrival.                         *)
(***************************************************************************)
SkippedSlotInfo == [PandoraHeaderHash |-> EmptyHash, Status |-> "Skipped"]

\* what cache.Set returns for slot when the cache would drop a new item
SetStatus(s, slot, status) == status \/ slot \in DOMAIN s.verifiedSlotInfoCache

RECURSIVE FillSkipped(_, _, _, _)
FillSkipped(s, from, to, status) ==
    IF from > to THEN s
    ELSE IF VerifiedSlotInfo(s, from) = NilSlotInfo
         THEN FillSkipped(
                  SaveVerifiedSlotInfo(s, from, SkippedSlotInfo,
                                       SetStatus(s, from, status), "none"),
                  from + 1, to, status)
         ELSE FillSkipped(s, from + 1, to, status)

\* the verdicts the match procedure ends with
TerminalSlotInfos == [PandoraHeaderHash : Hashes, Status : {"Verified", "Invalid"}]

\* the store after the verifier handled a terminal outcome for slot; fault is
\* what happens to the write of the verdict itself
WriteVerdict(s, slot, slotInfo, status, fault) ==
    LET filled == FillSkipped(s, LatestSavedVerifiedSlot(s) + 1, slot - 1, status)
    IN  SaveVerifiedSlotInfo(filled, slot, slotInfo,
                             SetStatus(filled, slot, status), fault)

VerifierWriteVerdict(slot, slotInfo, status, fault) ==
    /\ nops < MaxOps
    /\ store.isRunning
    /\ store' = WriteVerdict(store, slot, slotInfo, status, fault)
    /\ ret' = [op |-> "WriteVerdict", slot |-> slot,
               err |-> SaveVerifiedSlotInfoErr(fault)]
    /\ nops' = nops + 1
    /\ UNCHANGED <<vanVars, otherVars>>

(***************************************************************************)
(* The vanguard (consensus) service's handler of pending beacon blocks.     *)
(***************************************************************************)
\* pandora shards of a beacon block body
ShardA ==
    [BlockNumber |-> 1, ParentHash |-> HashOf(1), StateRoot |-> HashOf(1),
     ReceiptHash |-> HashOf(1), TxHash |-> HashOf(1), Signature |-> <<1>>]

ShardB ==
    [BlockNumber |-> 2, ParentHash |-> HashOf(1), StateRoot |-> HashOf(2),
     ReceiptHash |-> HashOf(2), TxHash |-> HashOf(2), Signature |-> <<2>>]

\* *eth.BeaconBlock: nil, or a block with its slot, the outcome of
\* HashTreeRoot (Root, or an error) and body.pandora_shard
NilBlock ==
    [isNil |-> TRUE, Slot |-> 0, Root |-> EmptyHash, htrErr |-> FALSE, PandoraShard |-> <<>>]

BeaconBlocks ==
    {NilBlock} \cup
    [isNil : {FALSE}, Slot : Slots, Root : Hashes, htrErr : BOOLEAN,
     PandoraShard : {<<>>, <<ShardA>>, <<ShardB, ShardA>>}]

\* orchestratorDB.LatestVerifiedRealmSlot: the latest verified slot the open
\* store holds in memory
LatestVerifiedRealmSlot == store.latestVerifiedSlot

\* the reorg check with its comparison off by one
ReorgNotSupportedOffByOne(block) == block.Slot + 1 < LatestVerifiedRealmSlot

\* the reorg check of OnNewPendingVanguardBlock
ReorgNotSupported(block) == block.Slot < LatestVerifiedRealmSlot

\* the types.HeaderHash the handler builds from shards[0] and the block hash
HeaderHashOf(block) ==
    LET shardInfo == block.PandoraShard[1]
    IN  [HeaderHash |-> BytesToHash(block.Root),
         Status |-> "Pending",
         BlockNumber |-> shardInfo.BlockNumber,
         Signature |-> shardInfo.Signature,
         StateRoot |-> shardInfo.StateRoot,
         ReceiptHash |-> shardInfo.ReceiptHash,
         TxHash |-> shardInfo.TxHash,
         ParentHash |-> shardInfo.ParentHash]

\* why OnNewPendingVanguardBlock returns before it sends ("" when it does not)
DropReason(block) ==
    CASE block.isNil -> "block cannot be nil"
      [] ReorgNotSupported(block) -> "reorgs not supported"
      [] block.htrErr -> "hash tree root"
      [] Len(block.PandoraShard) < 1 -> "pandora sharding info not present"
      [] OTHER -> ""

\* OnNewPendingVanguardBlock up to and including the Send on the feed
OnNewPendingVanguardBlock(block) ==
    /\ nops < MaxOps
    /\ vanPc.at = "idle"
    /\ ret' = [op |-> "OnNewPendingVanguardBlock", slot |-> block.Slot,
               err |-> DropReason(block)]
    /\ IF DropReason(block) # ""
       THEN UNCHANGED <<vanguardPendingBlockHashFeed, vanPc>>
       ELSE /\ vanguardPendingBlockHashFeed'
                  = Append(vanguardPendingBlockHashFeed, HeaderHashOf(block))
            /\ vanPc' = [at |-> "save", slot |-> block.Slot,
                         headerHash |-> HeaderHashOf(block)]
    /\ nops' = nops + 1
    /\ UNCHANGED <<store, vanguardHeaderHashDB, otherVars>>

\* the rest of OnNewPendingVanguardBlock: SaveVanguardHeaderHash, whose error
\* is only logged
SaveVanguardHeaderHash(saveErr) ==
    /\ vanPc.at = "save"
    /\ vanguardHeaderHashDB' =
          IF saveErr THEN vanguardHeaderHashDB
          ELSE [k \in (DOMAIN vanguardHeaderHashDB) \cup {vanPc.slot} |->
                   IF k = vanPc.slot THEN vanPc.headerHash
                   ELSE vanguardHeaderHashDB[k]]
    /\ vanPc' = VanIdle
    /\ ret' = [op |-> "SaveVanguardHeaderHash", slot |-> vanPc.slot,
               err |-> IF saveErr THEN "save" ELSE "nil"]
    /\ UNCHANGED <<store, nops, vanguardPendingBlockHashFeed, otherVars>>

\* the orchestrator at work: the verifier writes verdicts, the vanguard
\* service handles pending beacon blocks
SysNext ==
    \/ \E slot \in Slots, slotInfo \in TerminalSlotInfos, status \in BOOLEAN,
          fault \in Faults :
          VerifierWriteVerdict(slot, slotInfo, status, fault)
    \/ \E block \in BeaconBlocks : OnNewPendingVanguardBlock(block)
    \/ \E saveErr \in BOOLEAN : SaveVanguardHeaderHash(saveErr)

SysSpec == Init /\ [][SysNext]_vars

(***************************************************************************)
(* Claims about the running orchestrator, checked under SysSpec.            *)
(***************************************************************************)
\* the slots that hold a stored slot info
StoredSlots(s) == {slot \in Slots : StoredSlotInfo(s, slot) # NilSlotInfo}

\* C9: every slot at or below latest_verified_slot and at or above the first
\* (lowest) slot written by the verifier holds a stored slot info whose status
\* is Verified, Invalid or Skipped: no gaps and no Pending rows below the
\* cursor.
C9_NoGapsBelowCursor ==
    \A slot \in Slots :
        (/\ slot <= store.latestVerifiedSlot
         /\ \E first \in StoredSlots(store) : first <= slot)
            => StoredSlotInfo(store, slot).Status \in {"Verified", "Invalid", "Skipped"}

\* C10: a beacon block whose slot is strictly less than the latest verified
\* slot is dropped by OnNewPendingVanguardBlock: nothing is sent on the
\* pending block hash feed and neither the store nor the saved vanguard header
\* hashes change.
C10_ReorgBlockDropped ==
    [][(ret'.op = "OnNewPendingVanguardBlock" /\ ret'.slot < store.latestVerifiedSlot)
          => /\ vanguardPendingBlockHashFeed' = vanguardPendingBlockHashFeed
             /\ vanguardHeaderHashDB' = vanguardHeaderHashDB
             /\ vanPc' = vanPc
             /\ store' = store]_vars

\* C10 witness: the handler has just dropped a block below a non-zero cursor.
C10_Witness ==
    /\ ret.op = "OnNewPendingVanguardBlock"
    /\ ret.err = "reorgs not supported"
    /\ ret.slot < store.latestVerifiedSlot

(***************************************************************************)
(* Calls on a slot cache.                                                   *)
(***************************************************************************)
\* what the store, the verifier and the vanguard service hold is left alone
\* by the calls on the cache
CallPut(slot, header) ==
    /\ pc' = Put(pc, slot, header)
    /\ recentPuts' = LastPuts(Touch(recentPuts, slot))
    /\ cacheRet' = [op |-> "Put", slot |-> slot, header |-> header, err |-> "nil",
                    evicted |-> Evicted(pc, slot)]
    /\ UNCHANGED exceptCache

CallGet(slot) ==
    /\ pc' = AfterGet(pc, slot)
    /\ cacheRet' = [op |-> "Get", slot |-> slot, header |-> Get(pc, slot).header,
                    err |-> Get(pc, slot).err, evicted |-> NoSlot]
    /\ UNCHANGED <<recentPuts, exceptCache>>

CallRemove(slot) ==
    /\ pc' = Remove(pc, slot)
    /\ recentPuts' = LET keep(x) == x > slot IN SelectSeq(recentPuts, keep)
    /\ cacheRet' = [op |-> "Remove", slot |-> slot, header |-> NilHeader,
                    err |-> "nil", evicted |-> NoSlot]
    /\ UNCHANGED exceptCache

CacheNext ==
    \/ \E slot \in Slots, header \in Headers : CallPut(slot, header)
    \/ \E slot \in Slots : CallGet(slot)
    \/ \E slot \in Slots : CallRemove(slot)

CacheSpec == Init /\ [][CacheNext]_vars

(***************************************************************************)
(* Claims about the slot cache, checked under CacheSpec.                    *)
(***************************************************************************)
\* C11: after any sequence of Put and Remove calls the number of entries
\* GetAll returns never exceeds maxCacheSize.
C11_CacheSizeBounded == Cardinality(DOMAIN GetAll(pc)) <= maxCacheSize

\* C11 witness: a Put on a full cache has evicted a slot and the cache is
\* full again.
C11_Witness ==
    /\ cacheRet.op = "Put"
    /\ cacheRet.evicted # NoSlot
    /\ Cardinality(DOMAIN GetAll(pc)) = maxCacheSize

\* C12: when a Put on a full cache evicts slot e, then immediately afterwards
\* Get(k') returns the error "Invalid slot" for every k' <= e, while the most
\* recently put slots that fit within capacity are still returned by Get.
C12_EvictionKeepsRecentPuts ==
    [][(cacheRet'.op = "Put" /\ cacheRet'.evicted # NoSlot)
          => /\ \A k \in Slots :
                    k <= cacheRet'.evicted => Get(pc', k).err = "Invalid slot"
             /\ \A i \in 1 .. Len(recentPuts') :
                    Get(pc', recentPuts'[i]).err = "nil"]_vars

\* C12 as amended: when a Put(k, v) on a full cache evicts slot e, then
\* immediately afterwards Get(k') returns the error "Invalid slot" for every
\* k' <= e, while every slot above e that the cache held before the Put is
\* still returned by Get with its header, and so is k with v when k > e.
C12_EvictionDropsUpToEvicted ==
    [][(cacheRet'.op = "Put" /\ cacheRet'.evicted # NoSlot)
          => /\ \A k \in Slots :
                    k <= cacheRet'.evicted => Get(pc', k).err = "Invalid slot"
             /\ \A k \in DOMAIN pc.cache :
                    (k > cacheRet'.evicted /\ k # cacheRet'.slot)
                        => Get(pc', k) = Get(pc, k)
             /\ cacheRet'.slot > cacheRet'.evicted
                    => Get(pc', cacheRet'.slot)
                          = [header |-> cacheRet'.header, err |-> "nil"]]_vars

\* C12 witness: a Put has evicted a slot, and a slot above the evicted one is
\* still held next to the one that was put.
C12_Witness ==
    /\ cacheRet.op = "Put"
    /\ cacheRet.evicted # NoSlot
    /\ cacheRet.slot > cacheRet.evicted
    /\ \E k \in DOMAIN pc.cache : k # cacheRet.slot /\ k > cacheRet.evicted

\* C13: after Remove(r), Get(k) returns the error "Invalid slot" for every
\* k <= r, and for every k > r that was held before the call Get(k) returns
\* the same header as before.
C13_RemoveDropsUpTo ==
    [][cacheRet'.op = "Remove"
          => /\ \A k \in Slots :
                    k <= cacheRet'.slot => Get(pc', k).err = "Invalid slot"
             /\ \A k \in DOMAIN pc.cache :
                    k > cacheRet'.slot
                        => (Get(pc', k).err = "nil" /\ Get(pc', k) = Get(pc, k))]_vars

\* C13 witness: Remove(r) has been called with r above the lowest slot, and
\* the cache still holds a slot above r.
C13_Witness ==
    /\ cacheRet.op = "Remove"
    /\ cacheRet.slot > 0
    /\ \E k \in DOMAIN pc.cache : k > cacheRet.slot

\* C14: after Put(slot, v), Get(slot) returns v without error for as long as
\* the slot has been neither evicted nor dropped by a Remove: the Put itself
\* makes Get(slot) return v unless it evicts a slot at or above slot, and no
\* later call changes what Get returns for a held slot other than a Put of
\* that slot, a Put that evicts a slot at or above it, or a Remove at or
\* above it.
C14_PutThenGet ==
    [][/\ (cacheRet'.op = "Put"
             /\ (cacheRet'.evicted = NoSlot \/ cacheRet'.slot > cacheRet'.evicted))
          => Get(pc', cacheRet'.slot) = [header |-> cacheRet'.header, err |-> "nil"]
       /\ \A k \in DOMAIN pc.cache :
             (/\ ~(cacheRet'.op = "Put" /\ cacheRet'.slot = k)
              /\ ~(cacheRet'.op = "Put" /\ cacheRet'.evicted # NoSlot
                     /\ k <= cacheRet'.evicted)
              /\ ~(cacheRet'.op = "Remove" /\ k <= cacheRet'.slot))
                => (Get(pc', k).err = "nil" /\ Get(pc', k) = Get(pc, k))]_vars

\* C14 witness: a Put of a held slot has replaced its header without any
\* eviction, next to another held slot.
C14_Witness ==
    /\ cacheRet.op = "Put"
    /\ cacheRet.evicted = NoSlot
    /\ Cardinality(DOMAIN pc.cache) = maxCacheSize
    /\ Get(pc, cacheRet.slot).header = [Number |-> 2]
    /\ \E k \in DOMAIN pc.cache : k # cacheRet.slot /\ Get(pc, k).header = [Number |-> 1]

(***************************************************************************)
(* The RPC API (package events): confirmation of block hashes.              *)
(***************************************************************************)
\* BlockHash requests and the batches the clients send: empty, one request,
\* two requests
BlockHashes == [Slot : Slots, Hash : Hashes]

RequestBatches ==
    {<<>>} \cup {<<r>> : r \in BlockHashes}
           \cup {<<r1, r2>> : r1 \in BlockHashes, r2 \in BlockHashes}

\* the BlockStatus entries both calls build: the request's slot and hash with
\* status generalTypes.Verified
VerifiedResponse(requests) ==
    [i \in 1 .. Len(requests) |->
        [Slot |-> requests[i].Slot, Hash |-> requests[i].Hash, Status |-> "Verified"]]

\* PublicFilterAPI.ConfirmPanBlockHashes: (res, err)
ConfirmPanBlockHashes(requests) ==
    IF Len(requests) < 1 THEN [res |-> <<>>, err |-> "invalid request"]
    ELSE [res |-> VerifiedResponse(requests), err |-> "nil"]

\* ConfirmVanBlockHashes that asks for at least two requests
ConfirmVanBlockHashesOffByOne(requests) ==
    IF Len(requests) < 2 THEN [res |-> <<>>, err |-> "request has empty slice"]
    ELSE [res |-> VerifiedResponse(requests), err |-> "nil"]

\* PublicFilterAPI.ConfirmVanBlockHashes: (res, err)
ConfirmVanBlockHashes(requests) ==
    IF Len(requests) < 1 THEN [res |-> <<>>, err |-> "request has empty slice"]
    ELSE [res |-> VerifiedResponse(requests), err |-> "nil"]

\* the two errors the calls return for a batch they refuse
InvalidRequest == {"invalid request", "request has empty slice"}

ConfirmApis == {"ConfirmPanBlockHashes", "ConfirmVanBlockHashes"}

\* a client calls one of the two methods
CallConfirmBlockHashes(api, requests) ==
    LET r == IF api = "ConfirmPanBlockHashes" THEN ConfirmPanBlockHashes(requests)
             ELSE ConfirmVanBlockHashes(requests)
    IN  /\ nops < MaxOps
        /\ store.isRunning
        /\ rpcRet' = [requests |-> requests, res |-> r.res]
        /\ ret' = [op |-> api, slot |-> 0, err |-> r.err]
        /\ nops' = nops + 1
        /\ UNCHANGED <<store, exceptRpc>>

\* the verifier writes verdicts (here without store failures) while clients
\* ask for confirmations
RpcNext ==
    \/ \E slot \in Slots, slotInfo \in TerminalSlotInfos :
          VerifierWriteVerdict(slot, slotInfo, TRUE, "none")
    \/ \E api \in ConfirmApis, requests \in RequestBatches :
          CallConfirmBlockHashes(api, requests)

RpcSpec == Init /\ [][RpcNext]_vars

\* this step is a call of ConfirmPanBlockHashes or ConfirmVanBlockHashes
IsConfirmStep == ret'.op \in ConfirmApis /\ nops' = nops + 1

\* the status the confirmation of req is to carry, given what the store holds
\* for its slot: Pending without a resolved verdict, Verified for a resolved
\* verdict with the requested hash, Invalid for one with another hash
ExpectedStatus(s, req) ==
    LET slotInfo == VerifiedSlotInfo(s, req.Slot)
    IN  IF slotInfo = NilSlotInfo \/ slotInfo.Status = "Pending" THEN "Pending"
        ELSE IF slotInfo.PandoraHeaderHash = req.Hash THEN "Verified"
        ELSE "Invalid"

(***************************************************************************)
(* Claims about the confirmation calls, checked under RpcSpec.              *)
(***************************************************************************)
\* C15: for each {slot, hash} of a batch the returned status is Pending when
\* the slot has no resolved verdict, Invalid when the slot is resolved with a
\* different hash, and Verified only when the stored verdict's hash equals
\* the requested hash.
C15_ConfirmedStatus ==
    [][IsConfirmStep
          => \A i \in 1 .. Len(rpcRet'.res) :
                LET req == rpcRet'.requests[i]
                    got == rpcRet'.res[i].Status
                    slotInfo == VerifiedSlotInfo(store, req.Slot)
                IN  /\ ExpectedStatus(store, req) = "Pending" => got = "Pending"
                    /\ ExpectedStatus(store, req) = "Invalid" => got = "Invalid"
                    /\ got = "Verified"
                          => (slotInfo # NilSlotInfo
                              /\ slotInfo.PandoraHeaderHash = req.Hash)]_vars

\* C16: ConfirmVanBlockHashes and ConfirmPanBlockHashes called with an empty
\* batch return an invalid-request error and no response entries; a non-empty
\* batch never returns that error (and is answered entry by entry).
C16_EmptyBatchRejected ==
    [][IsConfirmStep
          => /\ rpcRet'.requests = <<>>
                  => (ret'.err \in InvalidRequest /\ rpcRet'.res = <<>>)
             /\ rpcRet'.requests # <<>>
                  => (ret'.err \notin InvalidRequest
                      /\ Len(rpcRet'.res) = Len(rpcRet'.requests))]_vars

\* C16 witness: an empty batch has been refused by ConfirmVanBlockHashes.
C16_Witness ==
    /\ ret.op = "ConfirmVanBlockHashes"
    /\ ret.err \in InvalidRequest
    /\ rpcRet.requests = <<>>

(***************************************************************************)
(* Consensus infos: the vanguard service's handler OnNewConsensusInfo and   *)
(* the RPC API's subscription MinimalConsensusInfo.                         *)
(***************************************************************************)
\* epochs are 0..MaxEpoch
MaxEpoch == 2
\* number of consensus infos the vanguard service is handed in one behaviour
MaxInfos == 3

Epochs == 0 .. MaxEpoch

\* the *types.MinimalEpochConsensusInfo of epoch e
ConsensusInfoOf(e) ==
    [Epoch |-> e, ValidatorList |-> <<"pk0", "pk1">>, EpochStartTime |-> 1000 + e,
     SlotTimeDuration |-> 6]

ConsensusInfos == {ConsensusInfoOf(e) : e \in Epochs}

\* the elements of the set of numbers S in ascending order
RECURSIVE Ascending(_)
Ascending(S) ==
    IF S = {} THEN <<>>
    ELSE LET least == CHOOSE x \in S : \A y \in S : x <= y
         IN  <<least>> \o Ascending(S \ {least})

\* backend.ConsensusInfoByEpochRange: the saved consensus infos from fromEpoch
\* up to the latest saved epoch, in ascending order of epoch
ConsensusInfoByEpochRange(db, fromEpoch) ==
    LET epochs == Ascending({e \in DOMAIN db : e >= fromEpoch})
    IN  [i \in 1 .. Len(epochs) |-> db[epochs[i]]]

\* orchestratorDB.SaveConsensusInfo
SaveConsensusInfo(db, info) ==
    [e \in (DOMAIN db) \cup {info.Epoch} |-> IF e = info.Epoch THEN info ELSE db[e]]

\* OnNewConsensusInfo up to and including the Send on consensusInfoFeed: the
\* event reaches the channel of the registered subscription
OnNewConsensusInfo(info) ==
    /\ nops < MaxInfos
    /\ conPc.at = "idle"
    /\ consensusInfo' = IF sub.subscribed THEN Append(consensusInfo, info)
                        ELSE consensusInfo
    /\ conPc' = [at |-> "save", consensusInfo |-> info]
    /\ ret' = [op |-> "OnNewConsensusInfo", slot |-> info.Epoch, err |-> "nil"]
    /\ nops' = nops + 1
    /\ UNCHANGED <<store, vanVars, consensusInfoDB, sub, notified, clientClosed,
                   knownAtSubscribe, exceptCon>>

\* the rest of OnNewConsensusInfo: SaveConsensusInfo, whose error is only
\* logged
OnNewConsensusInfoSave(saveErr) ==
    /\ conPc.at = "save"
    /\ consensusInfoDB' = IF saveErr THEN consensusInfoDB
                          ELSE SaveConsensusInfo(consensusInfoDB, conPc.consensusInfo)
    /\ conPc' = ConIdle
    /\ ret' = [op |-> "SaveConsensusInfo", slot |-> conPc.consensusInfo.Epoch,
               err |-> IF saveErr THEN "save" ELSE "nil"]
    /\ UNCHANGED <<store, nops, vanVars, subVars, exceptCon>>

\* the *generalTypes.MinimalEpochConsensusInfo handed to notifier.Notify
Notification(currentEpoch) ==
    [Epoch |-> currentEpoch.Epoch,
     ValidatorList |-> currentEpoch.ValidatorList,
     EpochStartTime |-> currentEpoch.EpochStartTime,
     SlotTimeDuration |-> currentEpoch.SlotTimeDuration]

\* the range loop walking alreadyKnownEpochs from its end
KnownNotificationDescending(alreadyKnownEpochs, index) ==
    Notification(alreadyKnownEpochs[Len(alreadyKnownEpochs) + 1 - index])

\* the notification the index-th round of the range loop over
\* alreadyKnownEpochs sends
KnownNotification(alreadyKnownEpochs, index) ==
    Notification(alreadyKnownEpochs[index])

\* notifier.Notify reaches the client unless it has disconnected
Notify(seq, info, live) ==
    IF clientClosed THEN seq ELSE Append(seq, [info |-> info, live |-> live])

\* where the goroutine is once the range loop has sent index - 1 epochs
AfterKnown(alreadyKnownEpochs, index) ==
    IF index > Len(alreadyKnownEpochs) THEN "loop" ELSE "known"

\* MinimalConsensusInfo up to the start of its goroutine: without notifier
\* support it returns ErrNotificationsUnsupported; otherwise it creates the
\* subscription and reads the already known epochs
MinimalConsensusInfo(epoch, supported) ==
    /\ sub.at = "none"
    /\ IF supported
       THEN /\ sub' = [at |-> "subscribe", epoch |-> epoch,
                       alreadyKnownEpochs |->
                           ConsensusInfoByEpochRange(consensusInfoDB, epoch),
                       index |-> 1, subscribed |-> FALSE]
            /\ knownAtSubscribe' = DOMAIN consensusInfoDB
       ELSE UNCHANGED <<sub, knownAtSubscribe>>
    /\ ret' = [op |-> "MinimalConsensusInfo", slot |-> epoch,
               err |-> IF supported THEN "nil" ELSE "ErrNotificationsUnsupported"]
    /\ UNCHANGED <<store, nops, vanVars, conVars, consensusInfo, notified,
                   clientClosed, exceptCon>>

\* the goroutine registers its channel: api.events.SubscribeConsensusInfo
SubscribeConsensusInfo ==
    /\ sub.at = "subscribe"
    /\ sub' = [sub EXCEPT !.subscribed = TRUE,
                          !.at = AfterKnown(sub.alreadyKnownEpochs, 1)]
    /\ ret' = [op |-> "SubscribeConsensusInfo", slot |-> sub.epoch, err |-> "nil"]
    /\ UNCHANGED <<store, nops, vanVars, conVars, consensusInfo, notified,
                   clientClosed, knownAtSubscribe, exceptCon>>

\* one round of the range loop over alreadyKnownEpochs
NotifyKnownEpoch ==
    /\ sub.at = "known"
    /\ notified' = Notify(notified,
                          KnownNotification(sub.alreadyKnownEpochs, sub.index), FALSE)
    /\ sub' = [sub EXCEPT !.index = sub.index + 1,
                          !.at = AfterKnown(sub.alreadyKnownEpochs, sub.index + 1)]
    /\ ret' = [op |-> "NotifyKnownEpoch", slot |-> sub.index,
               err |-> IF clientClosed THEN "notify" ELSE "nil"]
    /\ UNCHANGED <<store, nops, vanVars, conVars, consensusInfo, clientClosed,
                   knownAtSubscribe, exceptCon>>

\* the select loop receives a live event from its channel and notifies it
NotifyLiveEpoch ==
    /\ sub.at = "loop"
    /\ consensusInfo # <<>>
    /\ notified' = Notify(notified, Notification(Head(consensusInfo)), TRUE)
    /\ consensusInfo' = Tail(consensusInfo)
    /\ ret' = [op |-> "NotifyLiveEpoch", slot |-> Head(consensusInfo).Epoch,
               err |-> IF clientClosed THEN "notify" ELSE "nil"]
    /\ UNCHANGED <<store, nops, vanVars, conVars, sub, clientClosed,
                   knownAtSubscribe, exceptCon>>

\* the select loop returning on rpcSub.Err() or notifier.Closed() without
\* consensusInfoSub.Unsubscribe()
ReturnSubscribed ==
    /\ sub.at = "loop"
    /\ clientClosed
    /\ sub' = [sub EXCEPT !.at = "done"]
    /\ ret' = [op |-> "Unsubscribe", slot |-> sub.epoch, err |-> "nil"]
    /\ UNCHANGED <<store, nops, vanVars, conVars, consensusInfo, notified,
                   clientClosed, knownAtSubscribe, exceptCon>>

\* the select loop sees rpcSub.Err() or notifier.Closed(): it unsubscribes and
\* returns
Unsubscribe ==
    /\ sub.at = "loop"
    /\ clientClosed
    /\ sub' = [sub EXCEPT !.subscribed = FALSE, !.at = "done"]
    /\ ret' = [op |-> "Unsubscribe", slot |-> sub.epoch, err |-> "nil"]
    /\ UNCHANGED <<store, nops, vanVars, conVars, consensusInfo, notified,
                   clientClosed, knownAtSubscribe, exceptCon>>

\* the client of the subscription disconnects
ClientDisconnects ==
    /\ sub.at \notin {"none", "done"}
    /\ ~clientClosed
    /\ clientClosed' = TRUE
    /\ ret' = [op |-> "ClientDisconnects", slot |-> sub.epoch, err |-> "nil"]
    /\ UNCHANGED <<store, nops, vanVars, conVars, sub, consensusInfo, notified,
                   knownAtSubscribe, exceptCon>>

ConNext ==
    \/ \E info \in ConsensusInfos : OnNewConsensusInfo(info)
    \/ \E saveErr \in BOOLEAN : OnNewConsensusInfoSave(saveErr)
    \/ \E epoch \in Epochs, supported \in BOOLEAN : MinimalConsensusInfo(epoch, supported)
    \/ SubscribeConsensusInfo
    \/ NotifyKnownEpoch
    \/ NotifyLiveEpoch
    \/ Unsubscribe
    \/ ClientDisconnects

ConSpec == Init /\ [][ConNext]_vars

(***************************************************************************)
(* Claims about the consensus-info subscription, checked under ConSpec.     *)
(***************************************************************************)
\* C17: a client subscribing to MinimalConsensusInfo(fromEpoch) is first
\* notified of every epoch e >= fromEpoch known in the store at subscribe
\* time, in ascending epoch order, and only after all of those of any live
\* consensusInfoFeed event: as long as the client is connected, the i-th
\* notification is that of the i-th lowest such epoch, a live event is never
\* among the first ones, and the select loop is only reached with all of them
\* sent.
C17_KnownEpochsFirst ==
    LET known == Ascending({e \in knownAtSubscribe : e >= sub.epoch})
    IN  sub.at # "none" =>
           /\ \A i \in 1 .. Len(notified) :
                 IF i <= Len(known)
                 THEN /\ ~notified[i].live
                      /\ notified[i].info = ConsensusInfoOf(known[i])
                 ELSE notified[i].live
           /\ (sub.at = "loop" /\ ~clientClosed) => Len(notified) >= Len(known)

\* C17 witness: the connected client got two known epochs and then a live
\* event.
C17_Witness ==
    /\ sub.at = "loop"
    /\ ~clientClosed
    /\ Len(notified) = 3
    /\ ~notified[2].live
    /\ notified[3].live

(***************************************************************************)
(* The verifier's two handlers.  An arrival is put into its side's cache    *)
(* and emitted on its pending feed; the handler of that feed takes the      *)
(* slot's lock, looks the counterpart up in the opposite cache, returns if  *)
(* it is absent and runs the match procedure otherwise; on a terminal       *)
(* outcome it writes the verdict through the store, removes the slot from   *)
(* both caches and emits the verdict.                                       *)
(***************************************************************************)
\* number of arrivals on the two pending feeds in one behaviour
MaxArrivals == 3

Opposite(side) == IF side = "exec" THEN "cons" ELSE "exec"

\* an execution header: its hash and the fields the match compares (one
\* field stands for block number, parent hash, state root, receipt hash, tx
\* hash and the signature)
ExecHeaders == {[Hash |-> HashOf(1), StateRoot |-> 1]}

\* the shard info of a consensus block
ShardInfos == {[StateRoot |-> 1], [StateRoot |-> 2]}

Arrivals(side) == IF side = "exec" THEN ExecHeaders ELSE ShardInfos

\* the outcome of the match procedure for execution header E and shard info
\* C: Invalid when a compared field differs, deferred while the epoch is not
\* known, Verified otherwise
MatchOutcome(E, C, known) ==
    IF E.StateRoot # C.StateRoot THEN "Invalid"
    ELSE IF ~known THEN "defer"
    ELSE "Verified"

\* a slot lock that never blocks
CanLockAlways(held, slot) == TRUE

\* the slot-granular lock: free unless a handler holds it
CanLock(held, slot) == slot \notin held

\* an arrival for slot on the feed of side: Put into the side's cache, then
\* the emission.  A slot arrives once on each feed.
Arrives(side, slot, item) ==
    /\ nops < MaxArrivals
    /\ slot \notin verLog.arrived[side]
    /\ verCache' = [verCache EXCEPT ![side] = Put(@, slot, item)]
    /\ pendingFeed' = [pendingFeed EXCEPT ![side] = Append(@, [slot |-> slot, item |-> item])]
    /\ verLog' = [verLog EXCEPT !.arrived[side] = @ \cup {slot}]
    /\ ret' = [op |-> "Arrives", slot |-> slot, err |-> "nil"]
    /\ nops' = nops + 1
    /\ UNCHANGED <<store, verPc, locks, epochKnown, verdictFeed, exceptVer>>

\* the epoch of the slots becomes known to the store
EpochArrives ==
    /\ ~epochKnown
    /\ epochKnown' = TRUE
    /\ ret' = [op |-> "EpochArrives", slot |-> 0, err |-> "nil"]
    /\ UNCHANGED <<store, nops, verCache, pendingFeed, verPc, locks, verdictFeed,
                   verLog, exceptVer>>

\* the handler of side receives the next arrival of its feed and takes the
\* lock of its slot
Acquire(side) ==
    /\ verPc[side].at = "idle"
    /\ pendingFeed[side] # <<>>
    /\ CanLock(locks, Head(pendingFeed[side]).slot)
    /\ locks' = locks \cup {Head(pendingFeed[side]).slot}
    /\ pendingFeed' = [pendingFeed EXCEPT ![side] = Tail(@)]
    /\ verPc' = [verPc EXCEPT ![side] =
                    [at |-> "lookup", slot |-> Head(pendingFeed[side]).slot,
                     own |-> Head(pendingFeed[side]).item, other |-> <<>>,
                     status |-> ""]]
    /\ ret' = [op |-> "Acquire", slot |-> Head(pendingFeed[side]).slot, err |-> side]
    /\ UNCHANGED <<store, nops, verCache, epochKnown, verdictFeed, verLog, exceptVer>>

\* the locks without the one the handler of side holds, unless the other
\* handler holds the lock of the same slot (possible only for a lock that
\* does not block)
Released(side) ==
    IF verPc[Opposite(side)].at # "idle" /\ verPc[Opposite(side)].slot = verPc[side].slot
    THEN locks
    ELSE locks \ {verPc[side].slot}

\* the handler looks the counterpart up in the opposite cache; absent: it
\* returns
Lookup(side) ==
    LET found == Get(verCache[Opposite(side)], verPc[side].slot)
    IN  /\ verPc[side].at = "lookup"
        /\ verCache' = [verCache EXCEPT
                           ![Opposite(side)] = AfterGet(@, verPc[side].slot)]
        /\ IF found.err # "nil"
           THEN /\ verPc' = [verPc EXCEPT ![side] = VerIdle]
                /\ locks' = Released(side)
           ELSE /\ verPc' = [verPc EXCEPT ![side].at = "match",
                                          ![side].other = found.header]
                /\ UNCHANGED locks
        /\ ret' = [op |-> "Lookup", slot |-> verPc[side].slot, err |-> found.err]
        /\ UNCHANGED <<store, nops, pendingFeed, epochKnown, verdictFeed, verLog,
                       exceptVer>>

\* the match procedure and, on a terminal outcome, the write of the verdict
\* through the store
Match(side) ==
    LET E == IF side = "exec" THEN verPc[side].own ELSE verPc[side].other
        C == IF side = "exec" THEN verPc[side].other ELSE verPc[side].own
        outcome == MatchOutcome(E, C, epochKnown)
        slot == verPc[side].slot
    IN  /\ verPc[side].at = "match"
        /\ IF outcome = "defer"
           THEN /\ verPc' = [verPc EXCEPT ![side] = VerIdle]
                /\ locks' = Released(side)
                /\ verLog' = [verLog EXCEPT !.deferred = @ \cup {slot}]
                /\ UNCHANGED store
           ELSE /\ store' = WriteVerdict(store, slot,
                                [PandoraHeaderHash |-> E.Hash, Status |-> outcome],
                                TRUE, "none")
                /\ verPc' = [verPc EXCEPT ![side].at = "remove", ![side].status = outcome]
                /\ verLog' = [verLog EXCEPT
                                 !.matched = @ \cup {[slot |-> slot, side |-> side]},
                                 !.written = Append(@, [slot |-> slot, status |-> outcome])]
                /\ UNCHANGED locks
        /\ ret' = [op |-> "Match", slot |-> slot, err |-> outcome]
        /\ UNCHANGED <<nops, verCache, pendingFeed, epochKnown, verdictFeed, exceptVer>>

\* the handler removes the slot from both caches
RemoveFromCaches(side) ==
    /\ verPc[side].at = "remove"
    /\ verCache' = [s \in Sides |-> Remove(verCache[s], verPc[side].slot)]
    /\ verPc' = [verPc EXCEPT ![side].at = "emit"]
    /\ ret' = [op |-> "RemoveFromCaches", slot |-> verPc[side].slot, err |-> side]
    /\ UNCHANGED <<store, nops, pendingFeed, locks, epochKnown, verdictFeed, verLog,
                   exceptVer>>

\* the handler emits the verdict on the verdict feed and releases the lock
EmitVerdict(side) ==
    LET E == IF side = "exec" THEN verPc[side].own ELSE verPc[side].other
    IN  /\ verPc[side].at = "emit"
        /\ verdictFeed' = Append(verdictFeed,
                                 [slot |-> verPc[side].slot, hash |-> E.Hash,
                                  status |-> verPc[side].status])
        /\ verPc' = [verPc EXCEPT ![side] = VerIdle]
        /\ locks' = Released(side)
        /\ ret' = [op |-> "EmitVerdict", slot |-> verPc[side].slot, err |-> side]
        /\ UNCHANGED <<store, nops, verCache, pendingFeed, epochKnown, verLog, exceptVer>>

VerNext ==
    \/ \E side \in Sides, slot \in Slots :
          \E item \in Arrivals(side) : Arrives(side, slot, item)
    \/ EpochArrives
    \/ \E side \in Sides : Acquire(side)
    \/ \E side \in Sides : Lookup(side)
    \/ \E side \in Sides : Match(side)
    \/ \E side \in Sides : RemoveFromCaches(side)
    \/ \E side \in Sides : EmitVerdict(side)

VerSpec == Init /\ [][VerNext]_vars

(***************************************************************************)
(* Claims about the verifier, checked under VerSpec.                        *)
(***************************************************************************)
\* the number of elements of seq whose slot is slot
CountSlot(seq, slot) == Cardinality({i \in 1 .. Len(seq) : seq[i].slot = slot})

Endpoints == {"down", "refuses", "accepts"}

\* the errors a live subscription ends with
SubscriptionErrors == {"transport closed", "server error"}

\* db.GetLatestHeaderHash: the latest verified header hash, served from the
\* in-memory mirror while the store is open and from disk otherwise
GetLatestHeaderHash(s) ==
    IF s.isRunning THEN s.latestHeaderHash ELSE PersistedLatestHeaderHash(s)

\* Service.subscribe that subscribes again with the filter it used before
subscribeKeepsFilter(s, ep, closed) ==
    LET filter == IF s.conInfoSub.client # 0
                  THEN [FromBlockHash |-> s.conInfoSub.FromBlockHash]
                  ELSE [FromBlockHash |-> GetLatestHeaderHash(store)]
    IN  IF ep = "accepts" /\ s.rpcClient \notin closed
        THEN [s |-> [s EXCEPT !.conInfoSub = [client |-> s.rpcClient,
                                              FromBlockHash |-> filter.FromBlockHash]],
              err |-> "nil"]
        ELSE [s |-> s, err |-> "subscribe"]

\* Service.subscribe: [s, err].  The subscription is made on s.rpcClient,
\* which re-establishes a lost connection by itself unless it was closed.
subscribe(s, ep, closed) ==
    LET filter == [FromBlockHash |-> GetLatestHeaderHash(store)]
    IN  IF ep = "accepts" /\ s.rpcClient \notin closed
        THEN [s |-> [s EXCEPT !.conInfoSub = [client |-> s.rpcClient,
                                              FromBlockHash |-> filter.FromBlockHash]],
              err |-> "nil"]
        ELSE [s |-> s, err |-> "subscribe"]

\* Service.connectToChain: [s, err, dialed, ndials]; dialed tells whether
\* dialRPCFn was called, ndials counts the clients it has returned
connectToChain(s, ep, closed, n) ==
    IF s.rpcClient = 0
    THEN IF ep = "down" THEN [s |-> s, err |-> "dial", dialed |-> TRUE, ndials |-> n]
         ELSE LET r == subscribe([s EXCEPT !.rpcClient = n + 1], ep, closed)
              IN  [s |-> r.s, err |-> r.err, dialed |-> TRUE, ndials |-> n + 1]
    ELSE LET r == subscribe(s, ep, closed)
         IN  [s |-> r.s, err |-> r.err, dialed |-> FALSE, ndials |-> n]

\* where waitForConnection returns to
Return(caller) == IF caller = "Start" THEN "checkCtx" ELSE "afterRetry"

\* Service.Start: spawns the goroutine (the endpoint is set)
Start ==
    /\ panPc.at = "init"
    /\ panPc' = [at |-> "go", caller |-> ""]
    /\ panRet' = [op |-> "Start", err |-> "nil", dialed |-> FALSE]
    /\ UNCHANGED <<svc, endpoint, ndials, closedClients, conInfoSubErrCh, exceptPan>>

\* the goroutine sets isRunning and enters waitForConnection
GoBegin ==
    /\ panPc.at = "go"
    /\ svc' = [svc EXCEPT !.isRunning = TRUE]
    /\ panPc' = [at |-> "connect", caller |-> "Start"]
    /\ panRet' = [op |-> "go", err |-> "nil", dialed |-> FALSE]
    /\ UNCHANGED <<endpoint, ndials, closedClients, conInfoSubErrCh, exceptPan>>

\* waitForConnection: the first connectToChain
ConnectFirst ==
    LET r == connectToChain(svc, endpoint, closedClients, ndials)
    IN  /\ panPc.at = "connect"
        /\ IF r.err = "nil"
           THEN /\ svc' = [r.s EXCEPT !.connected = TRUE]
                /\ panPc' = [panPc EXCEPT !.at = Return(panPc.caller)]
           ELSE /\ svc' = [r.s EXCEPT !.runError = r.err]
                /\ panPc' = [panPc EXCEPT !.at = "ticker"]
        /\ ndials' = r.ndials
        /\ panRet' = [op |-> "connectToChain", err |-> r.err, dialed |-> r.dialed]
        /\ UNCHANGED <<endpoint, closedClients, conInfoSubErrCh, exceptPan>>

\* the ticker's retry that leaves the recorded error in place on success
TickConnectKeepsError ==
    LET r == connectToChain(svc, endpoint, closedClients, ndials)
    IN  /\ panPc.at = "ticker"
        /\ IF r.err = "nil"
           THEN /\ svc' = [r.s EXCEPT !.connected = TRUE]
                /\ panPc' = [panPc EXCEPT !.at = Return(panPc.caller)]
           ELSE /\ svc' = [r.s EXCEPT !.runError = r.err]
                /\ UNCHANGED panPc
        /\ ndials' = r.ndials
        /\ panRet' = [op |-> "connectToChain", err |-> r.err, dialed |-> r.dialed]
        /\ UNCHANGED <<endpoint, closedClients, conInfoSubErrCh, exceptPan>>

\* waitForConnection: the ticker fires after reConPeriod and connectToChain is
\* tried again
TickConnect ==
    LET r == connectToChain(svc, endpoint, closedClients, ndials)
    IN  /\ panPc.at = "ticker"
        /\ IF r.err = "nil"
           THEN /\ svc' = [r.s EXCEPT !.connected = TRUE, !.runError = "nil"]
                /\ panPc' = [panPc EXCEPT !.at = Return(panPc.caller)]
           ELSE /\ svc' = [r.s EXCEPT !.runError = r.err]
                /\ UNCHANGED panPc
        /\ ndials' = r.ndials
        /\ panRet' = [op |-> "connectToChain", err |-> r.err, dialed |-> r.dialed]
        /\ UNCHANGED <<endpoint, closedClients, conInfoSubErrCh, exceptPan>>

\* waitForConnection: the context is done while waiting for the ticker
WaitCtxDone ==
    /\ panPc.at = "ticker"
    /\ svc.cancelled
    /\ panPc' = [panPc EXCEPT !.at = Return(panPc.caller)]
    /\ panRet' = [op |-> "ctx.Done", err |-> "nil", dialed |-> FALSE]
    /\ UNCHANGED <<svc, endpoint, ndials, closedClients, conInfoSubErrCh, exceptPan>>

\* the goroutine after waitForConnection: it returns if the context is
\* closed, and enters run otherwise (run clears runError)
CheckCtx ==
    /\ panPc.at = "checkCtx"
    /\ IF svc.cancelled
       THEN /\ panPc' = [at |-> "exited", caller |-> ""]
            /\ UNCHANGED svc
       ELSE /\ panPc' = [at |-> "run", caller |-> ""]
            /\ svc' = [svc EXCEPT !.runError = "nil"]
    /\ panRet' = [op |-> "run", err |-> "nil", dialed |-> FALSE]
    /\ UNCHANGED <<endpoint, ndials, closedClients, conInfoSubErrCh, exceptPan>>

\* run: case <-done
RunDone ==
    /\ panPc.at = "run"
    /\ svc.cancelled
    /\ svc' = [svc EXCEPT !.isRunning = FALSE, !.runError = "nil"]
    /\ panPc' = [at |-> "exited", caller |-> ""]
    /\ panRet' = [op |-> "done", err |-> "nil", dialed |-> FALSE]
    /\ UNCHANGED <<endpoint, ndials, closedClients, conInfoSubErrCh, exceptPan>>

\* run: case err := <-s.conInfoSubErrCh, and retryToConnectAndSubscribe up to
\* its time.Sleep
RunSubErr ==
    /\ panPc.at = "run"
    /\ conInfoSubErrCh # "none"
    /\ svc' = [svc EXCEPT !.runError = conInfoSubErrCh, !.connected = FALSE]
    /\ conInfoSubErrCh' = "none"
    /\ panPc' = [at |-> "sleep", caller |-> "retry"]
    /\ panRet' = [op |-> "retryToConnectAndSubscribe", err |-> conInfoSubErrCh,
                  dialed |-> FALSE]
    /\ UNCHANGED <<endpoint, ndials, closedClients, exceptPan>>

\* retryToConnectAndSubscribe: the sleep of reConPeriod is over
SleepDone ==
    /\ panPc.at = "sleep"
    /\ panPc' = [panPc EXCEPT !.at = "connect"]
    /\ panRet' = [op |-> "time.Sleep", err |-> "nil", dialed |-> FALSE]
    /\ UNCHANGED <<svc, endpoint, ndials, closedClients, conInfoSubErrCh, exceptPan>>

\* retryToConnectAndSubscribe after waitForConnection: runError is reset
AfterRetry ==
    /\ panPc.at = "afterRetry"
    /\ svc' = [svc EXCEPT !.runError = "nil"]
    /\ panPc' = [at |-> "run", caller |-> ""]
    /\ panRet' = [op |-> "run", err |-> "nil", dialed |-> FALSE]
    /\ UNCHANGED <<endpoint, ndials, closedClients, conInfoSubErrCh, exceptPan>>

\* Service.Stop: closeClients, then cancel
Stop ==
    /\ ~svc.cancelled
    /\ closedClients' = IF svc.rpcClient # 0 THEN closedClients \cup {svc.rpcClient}
                        ELSE closedClients
    /\ svc' = [svc EXCEPT !.cancelled = TRUE]
    /\ panRet' = [op |-> "Stop", err |-> "nil", dialed |-> FALSE]
    /\ UNCHANGED <<panPc, endpoint, ndials, conInfoSubErrCh, exceptPan>>

\* the endpoint changes what it does
EndpointChanges(ep) ==
    /\ ep # endpoint
    /\ endpoint' = ep
    /\ panRet' = [op |-> "EndpointChanges", err |-> "nil", dialed |-> FALSE]
    /\ UNCHANGED <<svc, panPc, ndials, closedClients, conInfoSubErrCh, exceptPan>>

\* the subscription of the connected service fails: the error waits on
\* conInfoSubErrCh
SubscriptionFails(err) ==
    /\ svc.connected
    /\ conInfoSubErrCh = "none"
    /\ conInfoSubErrCh' = err
    /\ panRet' = [op |-> "SubscriptionFails", err |-> err, dialed |-> FALSE]
    /\ UNCHANGED <<svc, panPc, endpoint, ndials, closedClients, exceptPan>>

\* the verifier saves a verdict in the store the service reads its filter
\* from
PanVerifierWrites(slot, slotInfo) ==
    /\ nops < MaxOps
    /\ store.isRunning
    /\ store' = WriteVerdict(store, slot, slotInfo, TRUE, "none")
    /\ ret' = [op |-> "WriteVerdict", slot |-> slot, err |-> "nil"]
    /\ nops' = nops + 1
    /\ lastSavedHash' = slotInfo.PandoraHeaderHash
    /\ panRet' = [op |-> "WriteVerdict", err |-> "nil", dialed |-> FALSE]
    /\ UNCHANGED <<svc, panPc, endpoint, ndials, closedClients, conInfoSubErrCh,
                   vanVars, cacheVars, rpcVars, conVars, subVars, verVars, fanVars>>

\* the steps of the service's goroutine
PanWorker ==
    \/ GoBegin
    \/ ConnectFirst
    \/ TickConnect
    \/ WaitCtxDone
    \/ CheckCtx
    \/ RunDone
    \/ RunSubErr
    \/ SleepDone
    \/ AfterRetry

PanNext ==
    \/ Start
    \/ PanWorker
    \/ Stop
    \/ \E ep \in Endpoints : EndpointChanges(ep)
    \/ \E err \in SubscriptionErrors : SubscriptionFails(err)
    \/ \E slot \in Slots, hash \in Hashes :
          PanVerifierWrites(slot, [PandoraHeaderHash |-> hash, Status |-> "Verified"])

PanSpec == Init /\ [][PanNext]_vars

\* the goroutine is scheduled, its ticker fires and its sleep ends
PanFairSpec == PanSpec /\ WF_vars(PanWorker)

(***************************************************************************)
(* Claims about the pandora service.                                        *)
(***************************************************************************)
\* this step is an attempt to connect and subscribe
IsConnectStep == panRet'.op = "connectToChain"

\* the Subscribed state: connected, in the select loop of run
Subscribed == panPc.at = "run" /\ svc.connected

\* C19: while its context is not cancelled, the service retries
\* dial-and-subscribe after every failure, once per reconnect period (it
\* waits for the ticker after a failed attempt), recording the failure in
\* runError; when an attempt succeeds it becomes connected and runError is
\* cleared (it is nil in the Subscribed state, and at once after a retry by
\* the ticker); so if the endpoint eventually accepts and the context is
\* never cancelled, the started service reaches the Subscribed state.
\* Checked under PanFairSpec.
C19_RetryUntilSubscribed ==
    /\ [][/\ (IsConnectStep /\ panRet'.err # "nil")
              => /\ svc'.runError = panRet'.err
                 /\ ~svc'.connected
                 /\ panPc'.at = "ticker"
          /\ (IsConnectStep /\ panRet'.err = "nil")
              => /\ svc'.connected
                 /\ panPc.at = "ticker" => svc'.runError = "nil"]_vars
    /\ []((panPc.at = "run" /\ ~svc.cancelled)
            => (svc.connected /\ svc.runError = "nil"))
    /\ (<>[](endpoint = "accepts") /\ []~svc.cancelled)
          => [](panPc.at # "init" => <>Subscribed)

\* C19 witness: after a subscription error the first attempt failed and a
\* retry by the ticker has just succeeded (the recorded error is cleared
\* before retryToConnectAndSubscribe clears it), context not cancelled.
C19_Witness ==
    /\ panPc.at = "afterRetry"
    /\ panRet.op = "connectToChain"
    /\ panRet.err = "nil"
    /\ svc.connected
    /\ svc.runError = "nil"
    /\ ~svc.cancelled

\* C20: on a subscription error the service closes its RPC client and clears
\* its connected flag before backing off, and the following reconnect
\* attempt dials a fresh connection rather than re-using the failed client.
C20_FreshClientAfterSubscriptionError ==
    [][/\ panRet'.op = "retryToConnectAndSubscribe"
            => /\ ~svc'.connected
               /\ svc.rpcClient \in closedClients'
       /\ (IsConnectStep /\ panPc.caller = "retry")
            => /\ panRet'.dialed
               /\ panRet'.err = "nil" => svc'.conInfoSub.client # svc.conInfoSub.client]_vars

\* the worker has terminated
Exited == panPc.at = "exited"

\* C21: after Stop() the worker exits at its next suspension point: once the
\* context has been cancelled it starts no new dial or subscribe attempt
\* (no call of connectToChain), and it eventually terminates.
C21_NoAttemptAfterStop ==
    /\ [][svc.cancelled => ~IsConnectStep]_vars
    /\ [](svc.cancelled /\ panPc.at \in {"connect", "ticker", "run", "sleep"}
            => <>Exited)

\* this step is a successful subscription
IsSubscribeStep == IsConnectStep /\ panRet'.err = "nil"

IsReceiveStep == ret'.op = "NotifyLiveEpoch" /\ consensusInfo' # consensusInfo

\* C23: OnNewConsensusInfo saves the consensus info and then emits it on the
\* consensus-info feed: whenever a subscriber receives epoch e from the
\* feed, the store already holds e.
C23_SavedBeforeEmitted ==
    [][IsReceiveStep => ret'.slot \in DOMAIN consensusInfoDB]_vars

\* this step is an emission on the pending vanguard block hash feed
IsEmitStep == vanguardPendingBlockHashFeed' # vanguardPendingBlockHashFeed

\* C24: for every accepted beacon block the vanguard service stores the
\* header hash built from the first pandora shard under the block's slot and
\* then emits it on the pending feed: whenever a subscriber of the feed
\* receives the emission, the slot's entry is already retrievable.
C24_StoredBeforeEmitted ==
    [][IsEmitStep
          => /\ ret'.slot \in DOMAIN vanguardHeaderHashDB'
             /\ vanguardHeaderHashDB'[ret'.slot]
                   = vanguardPendingBlockHashFeed'[Len(vanguardPendingBlockHashFeed')]]_vars

(***************************************************************************)
(* The pending work of the pandora service and its consumers.               *)
(***************************************************************************)
\* number of items the service publishes in one behaviour
MaxWork == 2

\* the consumers that may register a channel
Consumers == {"verifier", "api"}

\* a forwarder holds no item
NoWork == 0

\* the service publishes a pending item: s.pendingWorkChannel <- item
PublishPendingWork ==
    LET item == Len(published) + 1
    IN  /\ Len(published) < MaxWork
        /\ pendingWorkChannel' = Append(pendingWorkChannel, item)
        /\ published' = Append(published,
                               [item |-> item, registered |-> DOMAIN forwarders])
        /\ fanRet' = [op |-> "publish", consumer |-> ""]
        /\ UNCHANGED <<forwarders, subscriberChan, exceptFan>>

\* Service.SubscribeToPendingWorkChannel: pendingWorkChannel is never nil
\* after NewService; a goroutine is started for the consumer's channel
SubscribeToPendingWorkChannel(consumer) ==
    /\ consumer \notin DOMAIN forwarders
    /\ forwarders' = [c \in (DOMAIN forwarders) \cup {consumer} |->
                         IF c = consumer THEN NoWork ELSE forwarders[c]]
    /\ subscriberChan' = [c \in (DOMAIN subscriberChan) \cup {consumer} |->
                             IF c = consumer THEN <<>> ELSE subscriberChan[c]]
    /\ fanRet' = [op |-> "SubscribeToPendingWorkChannel", consumer |-> consumer]
    /\ UNCHANGED <<pendingWorkChannel, published, exceptFan>>

\* the goroutine of a consumer: pendingWork := <-s.pendingWorkChannel
ForwarderReceives(consumer) ==
    /\ consumer \in DOMAIN forwarders
    /\ forwarders[consumer] = NoWork
    /\ pendingWorkChannel # <<>>
    /\ forwarders' = [forwarders EXCEPT ![consumer] = Head(pendingWorkChannel)]
    /\ pendingWorkChannel' = Tail(pendingWorkChannel)
    /\ fanRet' = [op |-> "receive", consumer |-> consumer]
    /\ UNCHANGED <<subscriberChan, published, exceptFan>>

\* the goroutine of a consumer: subscriberChan <- pendingWork
ForwarderSends(consumer) ==
    /\ consumer \in DOMAIN forwarders
    /\ forwarders[consumer] # NoWork
    /\ subscriberChan' = [subscriberChan EXCEPT
                             ![consumer] = Append(@, forwarders[consumer])]
    /\ forwarders' = [forwarders EXCEPT ![consumer] = NoWork]
    /\ fanRet' = [op |-> "send", consumer |-> consumer]
    /\ UNCHANGED <<pendingWorkChannel, published, exceptFan>>

FanNext ==
    \/ PublishPendingWork
    \/ \E consumer \in Consumers :
          \/ SubscribeToPendingWorkChannel(consumer)
          \/ ForwarderReceives(consumer)
          \/ ForwarderSends(consumer)

FanSpec == Init /\ [][FanNext]_vars

\* nothing is in flight: the channel is empty and no forwarder holds an item
FanQuiet ==
    /\ pendingWorkChannel = <<>>
    /\ \A c \in DOMAIN forwarders : forwarders[c] = NoWork

\* consumer has received item
Received(consumer, item) ==
    \E i \in 1 .. Len(subscriberChan[consumer]) : subscriberChan[consumer][i] = item

\* C25: every pending item the service publishes is delivered to every
\* consumer registered through SubscribeToPendingWorkChannel: once nothing is
\* in flight, each consumer registered when an item was published has
\* received it, so with two consumers no item is received by only one.
C25_FanOut ==
    FanQuiet =>
       \A i \in 1 .. Len(published) :
          \A c \in published[i].registered : Received(c, published[i].item)

(***************************************************************************)
(* The worker of a MinimalConsensusInfo subscription.                       *)
(***************************************************************************)
\* the worker is scheduled: it registers and walks alreadyKnownEpochs, and
\* its select takes a ready rpcSub.Err() or notifier.Closed() in the end
\* OnNewConsensusInfo for the epoch that follows the ones handled so far:
\* the vanguard chain reports each epoch once, in order
OnNextConsensusInfo(info) ==
    /\ nops = info.Epoch
    /\ OnNewConsensusInfo(info)

ConFairNext ==
    \/ \E info \in ConsensusInfos : OnNextConsensusInfo(info)
    \/ \E saveErr \in BOOLEAN : OnNewConsensusInfoSave(saveErr)
    \/ \E epoch \in Epochs, supported \in BOOLEAN : MinimalConsensusInfo(epoch, supported)
    \/ SubscribeConsensusInfo
    \/ NotifyKnownEpoch
    \/ NotifyLiveEpoch
    \/ Unsubscribe
    \/ ClientDisconnects

ConFairSpec ==
    /\ Init
    /\ [][ConFairNext]_vars
    /\ WF_vars(SubscribeConsensusInfo \/ NotifyKnownEpoch)
    /\ WF_vars(Unsubscribe)

\* C26: when the RPC client of a MinimalConsensusInfo subscription
\* disconnects or its subscription errors, the worker eventually unsubscribes
\* from the consensus-info feed and then terminates; it never returns while
\* still subscribed.  Checked under ConFairSpec.
C26_UnsubscribesThenTerminates ==
    /\ [](sub.at = "done" => ~sub.subscribed)
    /\ [][(sub.at # "done" /\ sub'.at = "done")
             => (ret'.op = "Unsubscribe" /\ sub.subscribed /\ ~sub'.subscribed)]_vars
    /\ (clientClosed /\ sub.at \notin {"none", "done"}) ~> (sub.at = "done")

\* C26 witness: the client disconnected while the worker was subscribed, and
\* the worker has unsubscribed and returned.
C26_Witness ==
    /\ sub.at = "done"
    /\ clientClosed
    /\ ~sub.subscribed
    /\ ret.op = "Unsubscribe"

(***************************************************************************)
(* Failing writes of the store, checked under Spec.                         *)
(***************************************************************************)
\* C27: a SaveVerifiedSlotInfo call that returns an error leaves the store
\* observably unchanged: VerifiedSlotInfo(slot) and the in-memory cursors
\* (latest verified slot, latest header hash) return afterwards what they
\* returned before the call.
C27_FailedSaveChangesNothing ==
    [][(IsSaveStep /\ ret'.err # "nil")
          => /\ VerifiedSlotInfo(store', ret'.slot) = VerifiedSlotInfo(store, ret'.slot)
             /\ InMemoryLatestVerifiedSlot(store') = InMemoryLatestVerifiedSlot(store)
             /\ InMemoryLatestVerifiedHeaderHash(store')
                   = InMemoryLatestVerifiedHeaderHash(store)]_vars

(***************************************************************************)
(* The snapshot and the live registration of MinimalConsensusInfo, checked  *)
(* under ConSpec.                                                           *)
(***************************************************************************)
\* the epochs the client has been notified of
NotifiedEpochs == {notified[i].info.Epoch : i \in 1 .. Len(notified)}

\* the subscription is in its select loop with nothing left to deliver, the
\* handler is not running and the client is connected
ConQuiet ==
    /\ sub.at = "loop"
    /\ consensusInfo = <<>>
    /\ conPc.at = "idle"
    /\ ~clientClosed

\* C28: under every interleaving of a MinimalConsensusInfo(fromEpoch)
\* subscription with OnNewConsensusInfo, every epoch e >= fromEpoch the
\* handler has handled is notified to the client at least once: when
\* nothing is left to deliver, every epoch from fromEpoch on that the store
\* holds has been notified, none fell between the read of the snapshot and
\* the registration on the live feed.
C28_NoGapAtSubscribe ==
    ConQuiet =>
       \A e \in DOMAIN consensusInfoDB : e >= sub.epoch => e \in NotifiedEpochs

(***************************************************************************)
(* The stopped pandora service, checked under PanSpec.                      *)
(***************************************************************************)
\* Service.Status
Status(s) ==
    IF ~s.isRunning THEN "nil"
    ELSE IF s.runError # "nil" THEN s.runError
    ELSE "nil"

\* C29: once the worker has exited after Stop(), the service is marked not
\* running and Status() returns nil, whatever the worker was doing when the
\* cancellation arrived: a stopped service reports no stale runError.
C29_StoppedServiceNotRunning ==
    (Exited /\ svc.cancelled) => (~svc.isRunning /\ Status(svc) = "nil")

====
